---- MODULE Spec2Model ----
(***************************************************************************)
(* Two programs of the repository are modelled here.                       *)
(*                                                                         *)
(*  - The flight simulator (animate / updateInstancedPlanes /              *)
(*    Flight.update / the speed slider): specification Spec, with          *)
(*    LiveSpec for its fairness.  LoadSpec is its startup (init and        *)
(*    loadFlightData over served files) followed by the ticks; UiSpec is   *)
(*    the ticks with the two buttons and the mouse.  The slider is left    *)
(*    alone in LoadSpec and UiSpec.                                        *)
(*  - The traffic visualizer (fetchAndPlot / plotDot and the polling       *)
(*    timer): specification VizSpec for overlapping polls, specification   *)
(*    CountrySpec for the dots with their country lookups.                 *)
(*                                                                         *)
(* JavaScript numbers are modelled exactly as rationals n/d (d > 0) plus   *)
(* the three non-finite values NaN, +Infinity and -Infinity that a         *)
(* division by zero produces.  Rounding of binary floating point is not    *)
(* modelled.                                                               *)
(***************************************************************************)
EXTENDS Integers, Sequences, FiniteSets, TLC

(***************************************************************************)
(* Bounds of the model                                                     *)
(***************************************************************************)
\* real seconds the THREE.Clock may run for
MaxNow == 7
\* number of 'input' events of the speed slider in one run
MaxSpeedChanges == 2

(***************************************************************************)
(* Program constants                                                       *)
(***************************************************************************)
SegmentCount == 50
MinSlider == 1
MaxSlider == 10
InitialSlider == 5
MinutesPerDay == 1440

(***************************************************************************)
(* JavaScript numbers                                                      *)
(***************************************************************************)
Fin(n, d) == [kind |-> "fin", n |-> n, d |-> d]
NaN == [kind |-> "NaN", n |-> 0, d |-> 1]
PosInf == [kind |-> "PosInf", n |-> 0, d |-> 1]
NegInf == [kind |-> "NegInf", n |-> 0, d |-> 1]

\* x / y for a finite x and an integer y >= 0
NumDiv(x, y) ==
    IF y # 0 THEN Fin(x.n, x.d * y)
    ELSE IF x.n = 0 THEN NaN
    ELSE IF x.n > 0 THEN PosInf
    ELSE NegInf

\* x * k for an integer k > 0
NumMul(x, k) == IF x.kind = "fin" THEN Fin(x.n * k, x.d) ELSE x

\* x - k for a finite x and an integer k
NumSub(x, k) == Fin(x.n - k * x.d, x.d)

\* Math.floor(x)
NumFloor(x) == IF x.kind = "fin" THEN Fin(x.n \div x.d, 1) ELSE x

\* x < a/b, x > a/b, x <= a/b, x >= a/b  (b > 0); every comparison with NaN
\* is false
NumLt(x, a, b) ==
    CASE x.kind = "fin" -> x.n * b < a * x.d
      [] x.kind = "NegInf" -> TRUE
      [] OTHER -> FALSE
NumGt(x, a, b) ==
    CASE x.kind = "fin" -> x.n * b > a * x.d
      [] x.kind = "PosInf" -> TRUE
      [] OTHER -> FALSE
NumLe(x, a, b) ==
    CASE x.kind = "fin" -> x.n * b <= a * x.d
      [] x.kind = "NegInf" -> TRUE
      [] OTHER -> FALSE
NumGe(x, a, b) ==
    CASE x.kind = "fin" -> x.n * b >= a * x.d
      [] x.kind = "PosInf" -> TRUE
      [] OTHER -> FALSE

(***************************************************************************)
(* The dataset and the construction of flights and airports                *)
(***************************************************************************)
\* A field of a parsed row (Papa.parse with dynamicTyping): undefined or
\* null, a number, or a string.  A string is held as the pieces that
\* split(':') yields; a piece is a decimal numeral or some other text.  The
\* empty string has no pieces.
Missing == [type |-> "undefined", value |-> 0, pieces |-> << >>]
Numeric(v) == [type |-> "number", value |-> v, pieces |-> << >>]
Text(pieces) == [type |-> "string", value |-> 0, pieces |-> pieces]
Digits(v) == [numeral |-> TRUE, value |-> v]
Word == [numeral |-> FALSE, value |-> 0]
HHMM(h, m) == Text(<< Digits(h), Digits(m) >>)

\* Rows of flight_dataset.csv.  A coordinate pair stands for (lat, lon).
Dataset ==
    << [origin |-> <<0, 0>>,  destination |-> <<0, 10>>, departure_time |-> HHMM(0, 24)],
       [origin |-> <<0, 0>>,  destination |-> <<10, 0>>, departure_time |-> HHMM(0, 12)],
       [origin |-> <<10, 0>>, destination |-> <<10, 0>>, departure_time |-> HHMM(0, 24)] >>

\* the truthiness test of JavaScript: undefined, null, 0 and "" are falsy
Truthy(field) ==
    CASE field.type = "string" -> field.pieces # << >>
      [] field.type = "number" -> field.value # 0
      [] OTHER -> FALSE

\* Number(piece); the piece that destructuring finds no element for is
\* undefined, which arithmetic turns into NaN
ToNumber(pieces, k) ==
    IF k <= Len(pieces) /\ pieces[k].numeral THEN Fin(pieces[k].value, 1) ELSE NaN

\* Flight.parseTime
parseTime(timeString) ==
    IF ~Truthy(timeString) \/ timeString.type # "string" THEN Fin(0, 1)
    ELSE LET hours == ToNumber(timeString.pieces, 1)
             minutes == ToNumber(timeString.pieces, 2)
         IN  IF hours.kind = "fin" /\ minutes.kind = "fin"
             THEN Fin((hours.n * 60 + minutes.n) * 60, 1)
             ELSE NaN

\* Flight.calculateDuration: great-circle distance / FLIGHT_SPEED.  The
\* haversine distance is zero exactly when origin and destination coincide;
\* for the airports of Dataset the quotient is tabulated in simulation
\* seconds.
calculateDuration(data) ==
    IF data.origin = data.destination THEN 0
    ELSE IF data.destination = <<0, 10>> THEN 288
    ELSE 1440

\* new Flight(data)
NewFlight(data) ==
    [ data |-> data,
      startTime |-> parseTime(data.departure_time),
      duration |-> calculateDuration(data),
      dynamicPathAdded |-> FALSE,
      dynamicSegmentIndex |-> 0,
      positions |-> {},
      departed |-> FALSE,
      arrived |-> FALSE,
      dynamicVisible |-> TRUE,
      pathVisible |-> FALSE ]

\* index of the first airport with the given key, 0 when there is none
RECURSIVE FindFrom(_, _, _)
FindFrom(stars, key, i) ==
    IF i > Len(stars) THEN 0
    ELSE IF stars[i].key = key THEN i
    ELSE FindFrom(stars, key, i + 1)
FindAirport(stars, key) == FindFrom(stars, key, 1)

\* the body of createAirportStars' loop for one flight
AddAirports(stars, data) ==
    LET withOrigin ==
            IF FindAirport(stars, data.origin) = 0
            THEN Append(stars, [key |-> data.origin, planes |-> 0])
            ELSE stars
        o == FindAirport(withOrigin, data.origin)
        counted == [withOrigin EXCEPT ![o].planes = @ + 1]
    IN  IF FindAirport(counted, data.destination) = 0
        THEN Append(counted, [key |-> data.destination, planes |-> 0])
        ELSE counted

RECURSIVE createAirportStars(_, _)
createAirportStars(rows, i) ==
    IF i = 0 THEN << >>
    ELSE AddAirports(createAirportStars(rows, i - 1), rows[i].data)

\* results.data.forEach of loadFlightData: the rows that become flights
KeptRows(rows) == SelectSeq(rows, LAMBDA data : Truthy(data.departure_time))

\* the flights array after the forEach
LoadedFlights(rows) ==
    [i \in 1..Len(KeptRows(rows)) |-> NewFlight(KeptRows(rows)[i])]

FlightIds == 1..Len(Dataset)

(***************************************************************************)
(* State                                                                   *)
(***************************************************************************)
VARIABLES
    now,                \* real seconds since the THREE.Clock was started
    clock,              \* the THREE.Clock: running, elapsedTime
    TIME_ACCELERATION,  \* simulation seconds per real second, as n/d
    currentTime,        \* animate's currentTime of the running/last tick
    pc,                 \* position inside animate
    flights,            \* the Flight objects
    airportStars,       \* the airports with their plane counts
    instanceMatrix,     \* planeInstances: per slot, the progress last written
    tickLog,            \* the steps executed by the running/last tick
    speedChanges,       \* number of slider inputs so far
    firstChange,        \* real time and slider value before the first input
    monotone,           \* no tick so far saw a smaller currentTime than the one before
    departures,         \* the flights whose departure fired, in the order it fired
    startup,            \* position of init()
    response,           \* what the server answers to fetch('flight_dataset.csv')
    areCompleteLinesVisible,    \* the flag of the complete-lines button
    areDynamicLinesVisible,     \* the flag of the dynamic-lines button
    tooltip             \* what the tooltip shows

flightVars == << now, clock, TIME_ACCELERATION, currentTime, pc, flights,
                 airportStars, instanceMatrix, tickLog, speedChanges,
                 firstChange, monotone, departures, startup, response,
                 areCompleteLinesVisible, areDynamicLinesVisible, tooltip >>

loadVars == << startup, response >>
uiVars == << areCompleteLinesVisible, areDynamicLinesVisible, tooltip >>

\* the factor grows with the slider value
AccelerationTimes(v) == Fin(MinutesPerDay * v, 1)

\* 1440 / speedSlider.value
Acceleration(v) == Fin(MinutesPerDay, v)

\* the matrix of a slot that no tick has written
InitialSlot == [origin |-> << >>, destination |-> << >>, t |-> NaN]

\* the matrix setMatrixAt stores: the point at progress t of the route of
\* the flight, 0.05 above the globe
SlotAt(data, t) == [origin |-> data.origin, destination |-> data.destination, t |-> t]

\* the tooltip is hidden
NoTooltip == [kind |-> "none", id |-> 0, ray |-> << >>]

\* what does not depend on the dataset
EngineInit ==
    /\ now = 0
    /\ clock = [running |-> FALSE, elapsedTime |-> 0]
    /\ TIME_ACCELERATION = Acceleration(InitialSlider)
    /\ currentTime = Fin(0, 1)
    /\ pc = "idle"
    /\ tickLog = << >>
    /\ speedChanges = 0
    /\ firstChange = [at |-> 0, from |-> InitialSlider]
    /\ monotone = TRUE
    /\ departures = << >>
    /\ areCompleteLinesVisible = FALSE
    /\ areDynamicLinesVisible = TRUE
    /\ tooltip = NoTooltip

\* the state in which init() calls animate(), with Dataset loaded
FlightInit ==
    /\ EngineInit
    /\ startup = "ready"
    /\ response = [ok |-> TRUE, rows |-> Dataset]
    /\ flights = LoadedFlights(Dataset)
    /\ airportStars = createAirportStars(LoadedFlights(Dataset), Len(Dataset))
    /\ instanceMatrix = [i \in FlightIds |-> InitialSlot]

(***************************************************************************)
(* Traffic visualizer: state                                               *)
(***************************************************************************)
\* packets the sender delivers to the receiver in one run
MaxPackets == 3
\* fetchAndPlot calls that may be awaiting a response at the same time
MaxCalls == 2

VARIABLES
    serverPackets,  \* number of packets the receiver holds: indices 0 .. serverPackets - 1
    nextIndex,      \* the packet index the next poll requests
    calls,          \* the fetchAndPlot calls that are suspended at an await
    dots,           \* every dot plotDot created, in creation order: its packet,
                    \* its removal timer, its userData.country and
                    \* userData.country_code ("" while undefined) and how
                    \* getCountryFromIP ended, if it has
    activeDots,     \* the dots (positions in dots) that are shown
    lateLookup      \* some country lookup settled after its dot was removed

vizVars == << serverPackets, nextIndex, calls, dots, activeDots, lateLookup >>

VARIABLES
    countryTable,   \* the rows of countryTable.innerHTML, << >> before the
                    \* first refresh
    tableFresh      \* no dot was plotted, removed or resolved since the last
                    \* refresh of the table

tableVars == << countryTable, tableFresh >>

\* runs of updateCountryCharts in one run of the model
MaxSamples == 62
\* runs of updateCountryCharts before the sender posts its first packet
QuietSamples == 59

\* the samples a chart keeps
ChartWindow == 60

ChartCodes == << "US", "RU", "CN" >>

VARIABLES
    charts,         \* per country code, chart.data.labels and
                    \* chart.data.datasets[0].data
    sampled         \* the clock of updateCountryCharts: its label is the
                    \* number of the run

chartVars == << charts, sampled >>

\* createChart: labels [] and data []
ChartInit ==
    /\ charts = [code \in { ChartCodes[k] : k \in DOMAIN ChartCodes } |->
                    [labels |-> << >>, data |-> << >>]]
    /\ sampled = 0

\* Path generation: state of the Flight constructor
VARIABLES
    pathInput,       \* the arguments of calculateCurvePoints
    curvePoints,     \* this.curvePoints, << >> before it is computed
    positionsLength  \* length of the dynamic path's buffer, -1 before it exists

pathVars == << pathInput, curvePoints, positionsLength >>

CallIds == 1..MaxCalls
NoCall == [stage |-> "none", index |-> 0]

VizInit ==
    /\ serverPackets = 0
    /\ nextIndex = 0
    /\ calls = [c \in CallIds |-> NoCall]
    /\ dots = << >>
    /\ activeDots = << >>
    /\ lateLookup = FALSE
    /\ countryTable = << >>
    /\ tableFresh = FALSE

(***************************************************************************)
(* The tick: animate                                                       *)
(***************************************************************************)
Entry(step, trip) == [step |-> step, trip |-> trip]

\* animate with the two update calls exchanged
PhaseAfterRevealFirst(p) ==
    CASE p = "idle" -> "flights"
      [] p = "flights" -> "planes"
      [] p = "planes" -> "idle"

\* the order of the calls inside animate
PhaseAfter(p) ==
    CASE p = "idle" -> "planes"
      [] p = "planes" -> "flights"
      [] p = "flights" -> "idle"

\* clock.getElapsedTime() * TIME_ACCELERATION
SimTime(elapsed, acceleration) == Fin(elapsed * acceleration.n, acceleration.d)

\* a >= b for two numbers that are finite or NaN
TimeGe(a, b) == a.kind = "fin" /\ b.kind = "fin" /\ a.n * b.d >= b.n * a.d

\* flight.startTime + flight.duration
EndTime(fl) ==
    IF fl.startTime.kind = "fin" THEN Fin(fl.startTime.n + fl.duration, 1) ELSE NaN

\* (currentTime - flight.startTime) / flight.duration
Progress(fl, time) ==
    IF fl.startTime.kind = "fin"
    THEN NumDiv(NumSub(time, fl.startTime.n), fl.duration)
    ELSE NaN

\* init() calling animate() without awaiting loadFlightData()
MayAnimateUnawaited(position) == position # "failed"

\* init() reaches animate() after 'await loadFlightData()' and the two
\* setup calls
MayAnimate(position) == position = "ready"

\* requestAnimationFrame callback, up to the reading of the clock
AnimateClock ==
    /\ pc = "idle"
    /\ MayAnimate(startup)
    /\ LET elapsed == IF clock.running THEN now ELSE 0
           time == SimTime(elapsed, TIME_ACCELERATION)
       IN  /\ clock' = [running |-> TRUE, elapsedTime |-> elapsed]
           /\ currentTime' = time
           /\ monotone' = (monotone /\ (clock.running => TimeGe(time, currentTime)))
    /\ tickLog' = << Entry("clock", 0) >>
    /\ pc' = PhaseAfter(pc)
    /\ UNCHANGED << now, TIME_ACCELERATION, flights, airportStars,
                    instanceMatrix, speedChanges, firstChange, departures >>
    /\ UNCHANGED << loadVars, uiVars >>
    /\ UNCHANGED vizVars
    /\ UNCHANGED pathVars
    /\ UNCHANGED chartVars
    /\ UNCHANGED tableVars

\* the departure test without its flag
DepartureFiresUngated(t, departed) == NumLt(t, 1, 100)

\* t < 0.01 && !flight.departed
DepartureFires(t, departed) == NumLt(t, 1, 100) /\ ~departed


\* the arrival branch without its flag test
ArrivalFiresUngated(t, arrived) == NumGt(t, 99, 100)

\* t > 0.99 && !flight.arrived
ArrivalFires(t, arrived) == NumGt(t, 99, 100) /\ ~arrived

\* the adjustment applied to the first airport instead of the one found
AdjustPlanesFirst(stars, key, by) == [stars EXCEPT ![1].planes = @ + by]

\* planes-- / planes++ on the airport found by key, nothing when none is found
AdjustPlanes(stars, key, by) ==
    LET a == FindAirport(stars, key)
    IN  IF a = 0 THEN stars ELSE [stars EXCEPT ![a].planes = @ + by]

\* the slot written on every tick, whatever the progress
IsActiveAlways(t) == TRUE

\* t >= 0 && t <= 1
IsActive(t) == NumGe(t, 0, 1) /\ NumLe(t, 1, 1)

\* the body of updateInstancedPlanes' forEach for flight index i
PlaneStep(st, i, time) ==
    LET fl == st.flights[i]
        t == Progress(fl, time)
    IN  IF IsActive(t)
        THEN LET moved == [st EXCEPT !.matrix[i] = SlotAt(fl.data, t),
                                     !.log = @ \o << Entry("transform", i),
                                                     Entry("occupancy", i) >>]
             IN  IF DepartureFires(t, fl.departed)
                 THEN [moved EXCEPT
                         !.stars = AdjustPlanes(@, fl.data.origin, -1),
                         !.flights[i].departed = TRUE,
                         !.order = Append(@, i)]
                 ELSE IF ArrivalFires(t, fl.arrived)
                 THEN [moved EXCEPT
                         !.stars = AdjustPlanes(@, fl.data.destination, 1),
                         !.flights[i].arrived = TRUE]
                 ELSE moved
        ELSE st

\* flights.forEach of updateInstancedPlanes, from index i on.  (Binding the
\* loop state to s makes TLC evaluate it once per iteration.)
RECURSIVE PlanesLoop(_, _, _)
PlanesLoop(st, i, time) ==
    CHOOSE r \in { IF i > Len(s.flights) THEN s
                   ELSE PlanesLoop(PlaneStep(s, i, time), i + 1, time) :
                   s \in {st} } : TRUE

\* updateInstancedPlanes(currentTime)
UpdateInstancedPlanes ==
    /\ pc = "planes"
    /\ LET st == PlanesLoop([flights |-> flights, stars |-> airportStars,
                             matrix |-> instanceMatrix, log |-> tickLog,
                             order |-> departures],
                            1, currentTime)
       IN  IF Len(flights) = 0
           THEN UNCHANGED << flights, airportStars, instanceMatrix, tickLog,
                             departures >>
           ELSE /\ flights' = st.flights
                /\ airportStars' = st.stars
                /\ instanceMatrix' = st.matrix
                /\ tickLog' = st.log
                /\ departures' = st.order
    /\ pc' = PhaseAfter(pc)
    /\ UNCHANGED << now, clock, TIME_ACCELERATION, currentTime, speedChanges,
                    firstChange, monotone >>
    /\ UNCHANGED << loadVars, uiVars >>
    /\ UNCHANGED vizVars
    /\ UNCHANGED pathVars
    /\ UNCHANGED chartVars
    /\ UNCHANGED tableVars

\* Math.floor(t * (this.curvePoints.length - 1))
TargetSegmentIndex(fl, time) == NumFloor(NumMul(Progress(fl, time), SegmentCount))

\* the draw test as an inequality
ShouldDrawOnChange(target, index) == target.kind = "fin" /\ target.n # index

\* targetSegmentIndex > this.dynamicSegmentIndex
ShouldDraw(target, index) == NumGt(target, index, 1)

\* the segments the for loop writes: i from the old index to the target,
\* those for which curvePoints[i + 1] exists
WrittenSegments(from, to) == { i \in from..to : i + 1 <= SegmentCount }

\* the path is in the scene only while the flight is due
PathAddedWhileDue(fl, time) == TimeGe(time, fl.startTime)

\* this.dynamicPathAdded after the first if of Flight.update
PathAdded(fl, time) == fl.dynamicPathAdded \/ TimeGe(time, fl.startTime)

\* Flight.update(currentTime)
FlightUpdate(fl, time) ==
    LET added == PathAdded(fl, time)
        addedNow == added /\ ~fl.dynamicPathAdded
        target == TargetSegmentIndex(fl, time)
    IN  IF /\ added
           /\ TimeGe(EndTime(fl), time)
           /\ ShouldDraw(target, fl.dynamicSegmentIndex)
        THEN [fl EXCEPT !.dynamicPathAdded = added,
                        !.dynamicVisible = (@ \/ addedNow),
                        !.positions = @ \cup WrittenSegments(fl.dynamicSegmentIndex, target.n),
                        !.dynamicSegmentIndex = target.n]
        ELSE [fl EXCEPT !.dynamicPathAdded = added,
                        !.dynamicVisible = (@ \/ addedNow)]

\* flights.forEach(flight => flight.update(currentTime))
UpdateFlights ==
    /\ pc = "flights"
    /\ flights' = [i \in DOMAIN flights |-> FlightUpdate(flights[i], currentTime)]
    /\ tickLog' = tickLog \o [i \in DOMAIN flights |-> Entry("reveal", i)]
    /\ pc' = PhaseAfter(pc)
    /\ UNCHANGED << now, clock, TIME_ACCELERATION, currentTime, airportStars,
                    instanceMatrix, speedChanges, firstChange, monotone, departures >>
    /\ UNCHANGED << loadVars, uiVars >>
    /\ UNCHANGED vizVars
    /\ UNCHANGED pathVars
    /\ UNCHANGED chartVars
    /\ UNCHANGED tableVars

(***************************************************************************)
(* Events between ticks                                                    *)
(***************************************************************************)
\* real time passes between two frames
Advance ==
    /\ pc = "idle"
    /\ clock.running
    /\ now < MaxNow
    /\ now' = now + 1
    /\ UNCHANGED << clock, TIME_ACCELERATION, currentTime, pc, flights,
                    airportStars, instanceMatrix, tickLog, speedChanges,
                    firstChange, monotone, departures >>
    /\ UNCHANGED << loadVars, uiVars >>
    /\ UNCHANGED vizVars
    /\ UNCHANGED pathVars
    /\ UNCHANGED chartVars
    /\ UNCHANGED tableVars

\* the slider's 'input' listener
SpeedInput(v) ==
    /\ pc = "idle"
    /\ clock.running
    /\ speedChanges < MaxSpeedChanges
    /\ v # TIME_ACCELERATION.d
    /\ TIME_ACCELERATION' = Acceleration(v)
    /\ speedChanges' = speedChanges + 1
    /\ firstChange' = IF speedChanges = 0
                      THEN [at |-> now, from |-> TIME_ACCELERATION.d]
                      ELSE firstChange
    /\ UNCHANGED << now, clock, currentTime, pc, flights, airportStars,
                    instanceMatrix, tickLog, monotone, departures >>
    /\ UNCHANGED << loadVars, uiVars >>
    /\ UNCHANGED vizVars
    /\ UNCHANGED pathVars
    /\ UNCHANGED chartVars
    /\ UNCHANGED tableVars

(***************************************************************************)
(* The buttons and the mouse                                               *)
(***************************************************************************)
\* hiding the dynamic path by taking it out of the scene
ShowDynamicByScene(fl, visible) ==
    [fl EXCEPT !.dynamicVisible = visible, !.dynamicPathAdded = visible]

\* flight.dynamicPath.visible = areDynamicLinesVisible
ShowDynamic(fl, visible) == [fl EXCEPT !.dynamicVisible = visible]

\* flight.path.visible = areCompleteLinesVisible
ShowComplete(fl, visible) == [fl EXCEPT !.pathVisible = visible]

\* click on 'Toggle Complete Lines'
ToggleComplete ==
    /\ pc = "idle"
    /\ startup = "ready"
    /\ areCompleteLinesVisible' = ~areCompleteLinesVisible
    /\ flights' = [i \in DOMAIN flights |->
                      ShowComplete(flights[i], ~areCompleteLinesVisible)]
    /\ UNCHANGED << now, clock, TIME_ACCELERATION, currentTime, pc,
                    airportStars, instanceMatrix, tickLog, speedChanges,
                    firstChange, monotone, departures, areDynamicLinesVisible,
                    tooltip >>
    /\ UNCHANGED loadVars
    /\ UNCHANGED vizVars
    /\ UNCHANGED pathVars
    /\ UNCHANGED chartVars
    /\ UNCHANGED tableVars

\* click on 'Toggle Dynamic Lines'
ToggleDynamic ==
    /\ pc = "idle"
    /\ startup = "ready"
    /\ areDynamicLinesVisible' = ~areDynamicLinesVisible
    /\ flights' = [i \in DOMAIN flights |->
                      ShowDynamic(flights[i], ~areDynamicLinesVisible)]
    /\ UNCHANGED << now, clock, TIME_ACCELERATION, currentTime, pc,
                    airportStars, instanceMatrix, tickLog, speedChanges,
                    firstChange, monotone, departures, areCompleteLinesVisible,
                    tooltip >>
    /\ UNCHANGED loadVars
    /\ UNCHANGED vizVars
    /\ UNCHANGED pathVars
    /\ UNCHANGED chartVars
    /\ UNCHANGED tableVars

\* objects one mouse ray may pass through
MaxHits == 2

\* star.position of an airport: the point of its coordinates on the globe
StarPosition(key) ==
    [origin |-> key, destination |-> key, t |-> [kind |-> "ground", n |-> 0, d |-> 1]]

\* where the stars are and where setMatrixAt has put a slot.  (A slot that
\* was never written is not on the globe; rays through it are left out.)
ScenePoints ==
    { StarPosition(airportStars[a].key) : a \in DOMAIN airportStars }
    \cup { instanceMatrix[i] : i \in { j \in DOMAIN instanceMatrix :
                                            instanceMatrix[j] # InitialSlot } }

\* A mouse ray, as the points of the scene it passes through, the nearest
\* first.  Every such point lies inside the raycaster's near/far window
\* (0 and Infinity by default).
Rays ==
    { ray \in UNION { [1..k -> ScenePoints] : k \in 0..MaxHits } :
        \A p, q \in DOMAIN ray : p # q => ray[p] # ray[q] }

\* distance along the ray of a point the ray passes through
RECURSIVE DistanceFrom(_, _, _)
DistanceFrom(ray, point, k) ==
    IF ray[k] = point THEN k ELSE DistanceFrom(ray, point, k + 1)
Distance(ray, point) == DistanceFrom(ray, point, 1)

\* raycaster.intersectObjects(stars): the stars the ray hits, sorted by
\* distance
AirportIntersects(ray, stars) ==
    SelectSeq(ray, LAMBDA point :
        \E a \in DOMAIN stars : StarPosition(stars[a].key) = point)

\* planeInstances.raycast: every slot below count is tested against the
\* ray, whether or not its Trip is in flight
RaycastHits(ray, matrix) ==
    { i \in DOMAIN matrix : \E k \in DOMAIN ray : ray[k] = matrix[i] }

\* planeIntersects[0].instanceId: the raycaster sorts the hits by distance;
\* hits at one distance stay in slot order.  0 when nothing is hit.
NearestSlot(ray, matrix) ==
    LET hits == RaycastHits(ray, matrix)
    IN  IF hits = {} THEN 0
        ELSE CHOOSE i \in hits :
                \A j \in hits :
                    \/ Distance(ray, matrix[i]) < Distance(ray, matrix[j])
                    \/ Distance(ray, matrix[i]) = Distance(ray, matrix[j]) /\ i <= j

\* the mousemove listener: the tooltip of the nearest airport the ray
\* hits if there is one, else of the flight of the nearest slot it hits,
\* else hidden.  The ray is kept next to what the tooltip shows.
MouseMove(ray) ==
    /\ pc = "idle"
    /\ startup = "ready"
    /\ LET airportIntersects == AirportIntersects(ray, airportStars)
           instanceId == NearestSlot(ray, instanceMatrix)
       IN  tooltip' =
             IF airportIntersects # << >>
             THEN [kind |-> "airport", ray |-> ray,
                   id |-> FindAirport(airportStars, airportIntersects[1].origin)]
             ELSE IF instanceId # 0 /\ instanceId \in DOMAIN flights
             THEN [kind |-> "flight", id |-> instanceId, ray |-> ray]
             ELSE [kind |-> "none", id |-> 0, ray |-> ray]
    /\ UNCHANGED << now, clock, TIME_ACCELERATION, currentTime, pc, flights,
                    airportStars, instanceMatrix, tickLog, speedChanges,
                    firstChange, monotone, departures,
                    areCompleteLinesVisible, areDynamicLinesVisible >>
    /\ UNCHANGED loadVars
    /\ UNCHANGED vizVars
    /\ UNCHANGED pathVars
    /\ UNCHANGED chartVars
    /\ UNCHANGED tableVars

\* the ticks with the buttons and the mouse, the slider left alone
UiNext ==
    \/ AnimateClock
    \/ UpdateInstancedPlanes
    \/ UpdateFlights
    \/ Advance
    \/ ToggleComplete
    \/ ToggleDynamic
    \/ \E ray \in Rays : MouseMove(ray)

(***************************************************************************)
(* Path generation: calculateCurvePoints and Flight.createDynamicPath      *)
(***************************************************************************)
\* A vector with rational coordinates is its direction, an integer triple
\* without common factor, and the square of its length n/d in lowest terms;
\* the zero vector has direction << 0, 0, 0 >> and length 0.
\* largest segment count the generation is explored with
MaxSegments == 3

\* the altitude 1.05 both functions are called with
PathAltitude == [n |-> 105, d |-> 100]

Abs(k) == IF k < 0 THEN -k ELSE k

RECURSIVE Gcd(_, _)
Gcd(a, b) == IF b = 0 THEN a ELSE Gcd(b, a % b)

\* a vector from a direction that may still hold a common factor
Vector3(w, n, d) ==
    LET g == Gcd(Gcd(Abs(w[1]), Abs(w[2])), Abs(w[3]))
        h == Gcd(n * g * g, d)
    IN  IF g = 0 \/ n = 0
        THEN [dir |-> << 0, 0, 0 >>, len2 |-> [n |-> 0, d |-> 1]]
        ELSE [dir |-> << w[1] \div g, w[2] \div g, w[3] \div g >>,
              len2 |-> [n |-> (n * g * g) \div h, d |-> d \div h]]

\* sine and cosine of a multiple of 90 degrees
Sin90(deg) == CASE deg % 360 = 90 -> 1 [] deg % 360 = 270 -> -1 [] OTHER -> 0
Cos90(deg) == CASE deg % 360 = 0 -> 1 [] deg % 360 = 180 -> -1 [] OTHER -> 0

\* Flight.latLongToVector3: setFromSphericalCoords(radius, phi, theta)
latLongToVector3(lat, lon, radius) ==
    LET phi == 90 - lat
        theta == lon + 90
    IN  Vector3(<< Sin90(phi) * Sin90(theta), Cos90(phi), Sin90(phi) * Cos90(theta) >>,
                radius.n * radius.n, radius.d * radius.d)

\* Vector3.lerpVectors(v1, v2, i / segments) for two vectors of one length:
\* v1 + (v2 - v1) * t = ((segments - i) * v1 + i * v2) / segments
lerpVectors(v1, v2, i, segments) ==
    LET w == [k \in 1..3 |-> (segments - i) * v1.dir[k] + i * v2.dir[k]]
        sq == w[1] * w[1] + w[2] * w[2] + w[3] * w[3]
    IN  Vector3(w, v1.len2.n * sq, v1.len2.d * segments * segments)

\* Vector3.normalize: the zero vector stays the zero vector
normalize(v) == Vector3(v.dir, IF v.len2.n = 0 THEN 0 ELSE 1, 1)

\* Vector3.multiplyScalar by the positive scalar n / d
multiplyScalar(v, s) == Vector3(v.dir, v.len2.n * s.n * s.n, v.len2.d * s.d * s.d)

\* the values the loop variable i takes
LoopIndicesExclusive(segments) == 0..(segments - 1)

LoopIndices(segments) == 0..segments

calculateCurvePoints(origin, destination, segments) ==
    LET start == latLongToVector3(origin[1], origin[2], PathAltitude)
        end == latLongToVector3(destination[1], destination[2], PathAltitude)
        indices == LoopIndices(segments)
    IN  [k \in 1..Cardinality(indices) |->
            multiplyScalar(normalize(lerpVectors(start, end, k - 1, segments)),
                           PathAltitude)]

\* Flight.createDynamicPath: the length of the Float32Array it allocates
createDynamicPath(points) == (Len(points) - 1) * 6

\* coordinates whose projections have rational components
Coordinates == { << lat, lon >> : lat \in {-90, 0, 90}, lon \in {-90, 0, 90, 180} }

PathInputs ==
    [origin : Coordinates, destination : Coordinates, segments : 1..MaxSegments]

\* no path is being generated
PathIdle ==
    /\ pathInput = [origin |-> << 0, 0 >>, destination |-> << 0, 0 >>, segments |-> 1]
    /\ curvePoints = << >>
    /\ positionsLength = -1

PathInit ==
    /\ pathInput \in PathInputs
    /\ curvePoints = << >>
    /\ positionsLength = -1

\* Flight constructor: this.curvePoints = calculateCurvePoints(...)
CurveComputed ==
    /\ curvePoints = << >>
    /\ curvePoints' = calculateCurvePoints(pathInput.origin, pathInput.destination,
                                           pathInput.segments)
    /\ UNCHANGED << pathInput, positionsLength >>
    /\ UNCHANGED << flightVars, vizVars, tableVars, chartVars >>

\* Flight constructor: this.dynamicPath = this.createDynamicPath(this.curvePoints)
DynamicPathCreated ==
    /\ curvePoints # << >>
    /\ positionsLength = -1
    /\ positionsLength' = createDynamicPath(curvePoints)
    /\ UNCHANGED << pathInput, curvePoints >>
    /\ UNCHANGED << flightVars, vizVars, tableVars, chartVars >>

PathNext ==
    \/ CurveComputed
    \/ DynamicPathCreated

(***************************************************************************)
(* Startup: init and loadFlightData                                        *)
(***************************************************************************)
\* rows a served file may hold
MaxRows == 2

\* the values the departure_time field of a row may have: absent, empty,
\* a number (830), text without a colon ("abc"), "00:24"
DepartureTimes == { Missing, Text(<< >>), Numeric(830), Text(<< Word >>), HHMM(0, 24) }

CandidateRows ==
    { [origin |-> <<0, 0>>, destination |-> <<0, 10>>, departure_time |-> dt] :
        dt \in DepartureTimes }

\* the answers to fetch('flight_dataset.csv'): a file of up to MaxRows rows,
\* or an error status, whose body holds no dataset row
Responses ==
    { [ok |-> FALSE, rows |-> << >>] }
    \cup { [ok |-> TRUE, rows |-> rows] :
             rows \in UNION { [1..k -> CandidateRows] : k \in 0..MaxRows } }

\* the state in which init() awaits fetch
LoadInit ==
    /\ EngineInit
    /\ startup = "fetch"
    /\ response \in Responses
    /\ flights = << >>
    /\ airportStars = << >>
    /\ instanceMatrix = << >>

\* 'await fetch(...)' settles: a rejection rejects init(), whose promise
\* nobody handles; any response, of whatever status, goes on to text()
DatasetFetched(rejected) ==
    /\ startup = "fetch"
    /\ startup' = IF rejected THEN "failed" ELSE "text"
    /\ UNCHANGED << now, clock, TIME_ACCELERATION, currentTime, pc, flights,
                    airportStars, instanceMatrix, tickLog, speedChanges,
                    firstChange, monotone, departures, response >>
    /\ UNCHANGED uiVars
    /\ UNCHANGED vizVars
    /\ UNCHANGED pathVars
    /\ UNCHANGED chartVars
    /\ UNCHANGED tableVars

\* 'await response.text()' settles and Papa.parse runs its complete
\* callback: the forEach over the rows, createInstancedPlanes (with
\* createFlightPaths), createAirportStars, resolve
DatasetParsed(rejected) ==
    /\ startup = "text"
    /\ IF rejected
       THEN /\ startup' = "failed"
            /\ UNCHANGED << flights, instanceMatrix, airportStars >>
       ELSE /\ startup' = "constructed"
            /\ flights' = LoadedFlights(response.rows)
            /\ instanceMatrix' = [i \in 1..Len(KeptRows(response.rows)) |-> InitialSlot]
            /\ airportStars' = createAirportStars(LoadedFlights(response.rows),
                                                  Len(KeptRows(response.rows)))
    /\ UNCHANGED << now, clock, TIME_ACCELERATION, currentTime, pc, tickLog,
                    speedChanges, firstChange, monotone, departures, response >>
    /\ UNCHANGED uiVars
    /\ UNCHANGED vizVars
    /\ UNCHANGED pathVars
    /\ UNCHANGED chartVars
    /\ UNCHANGED tableVars

\* init() resumes after 'await loadFlightData()': setupToggleButtons,
\* setupSpeedControl, then animate()
InitResumes ==
    /\ startup = "constructed"
    /\ startup' = "ready"
    /\ areCompleteLinesVisible' = FALSE
    /\ areDynamicLinesVisible' = TRUE
    /\ UNCHANGED << now, clock, TIME_ACCELERATION, currentTime, pc, flights,
                    airportStars, instanceMatrix, tickLog, speedChanges,
                    firstChange, monotone, departures, response, tooltip >>
    /\ UNCHANGED vizVars
    /\ UNCHANGED pathVars
    /\ UNCHANGED chartVars
    /\ UNCHANGED tableVars

\* startup followed by the ticks, the slider left alone
LoadNext ==
    \/ \E rejected \in BOOLEAN : DatasetFetched(rejected)
    \/ \E rejected \in BOOLEAN : DatasetParsed(rejected)
    \/ InitResumes
    \/ AnimateClock
    \/ UpdateInstancedPlanes
    \/ UpdateFlights
    \/ Advance

FlightNext ==
    \/ AnimateClock
    \/ UpdateInstancedPlanes
    \/ UpdateFlights
    \/ Advance
    \/ \E v \in MinSlider..MaxSlider : SpeedInput(v)

(***************************************************************************)
(* Traffic visualizer: the receiver, fetchAndPlot, plotDot                 *)
(***************************************************************************)
\* the sender posts one more packet to the receiver
Receive ==
    /\ serverPackets < MaxPackets
    /\ serverPackets' = serverPackets + 1
    /\ UNCHANGED << nextIndex, calls, dots, activeDots, lateLookup >>
    /\ UNCHANGED flightVars
    /\ UNCHANGED pathVars
    /\ UNCHANGED chartVars
    /\ UNCHANGED tableVars

\* GET /get_data/<index>: status 200 when the receiver holds that index
StatusOK(index, held) == index < held

\* setInterval(fetchAndPlot, 100) fires: fetchAndPlot runs up to
\* 'await fetch(.../get_data/${nextIndex})'
Poll(c) ==
    /\ calls[c] = NoCall
    /\ \A b \in CallIds : b < c => calls[b] # NoCall
    /\ calls' = [calls EXCEPT ![c] = [stage |-> "fetch", index |-> nextIndex]]
    /\ UNCHANGED << serverPackets, nextIndex, dots, activeDots, lateLookup >>
    /\ UNCHANGED flightVars
    /\ UNCHANGED pathVars
    /\ UNCHANGED chartVars
    /\ UNCHANGED tableVars

\* the fetch settles: with a response, fetchAndPlot goes on to
\* 'await res.json()' in the branch its status selects; with a rejection the
\* catch block ends the call
FetchSettles(c, rejected) ==
    /\ calls[c].stage = "fetch"
    /\ calls' = [calls EXCEPT ![c] =
                    IF rejected THEN NoCall
                    ELSE IF StatusOK(calls[c].index, serverPackets)
                    THEN [@ EXCEPT !.stage = "packet"]
                    ELSE [@ EXCEPT !.stage = "error"]]
    /\ UNCHANGED << serverPackets, nextIndex, dots, activeDots, lateLookup >>
    /\ UNCHANGED flightVars
    /\ UNCHANGED pathVars
    /\ UNCHANGED chartVars
    /\ UNCHANGED tableVars

\* What the lookup service does with a request: no usable answer (the fetch
\* rejects, the status is not ok or the body is no JSON object), or an
\* answer whose fields may be missing ("")
NoAnswer == [ok |-> FALSE, country |-> "", country_code |-> ""]
Answer(country, code) == [ok |-> TRUE, country |-> country, country_code |-> code]
GeoAnswers ==
    { NoAnswer, Answer("United States", "US"), Answer("Russia", "RU"),
      Answer("", "US"), Answer("", "RU"), Answer("Russia", "") }

\* getCountryFromIP: the value its promise resolves to
getCountryFromIP(geo) ==
    IF geo.ok
    THEN [country |-> IF geo.country # "" THEN geo.country ELSE "Unknown",
          country_code |-> IF geo.country_code # "" THEN geo.country_code ELSE "XX"]
    ELSE [country |-> "Unknown", country_code |-> "XX"]

\* plotDot: the new dot is added to the scene and pushed to activeDots (the
\* two are changed together, activeDots stands for both), the country lookup
\* is started and the removal timer is set
plotDot(packetIndex) ==
    /\ dots' = Append(dots, [packet |-> packetIndex, timer |-> "set", country |-> "",
                             country_code |-> "", lookup |-> "pending"])
    /\ activeDots' = Append(activeDots, Len(dots) + 1)

\* getCountryFromIP(ip) settles for dot d: the callback sets the dot's
\* userData and nothing else
CountryResolves(d, geo) ==
    /\ d \in DOMAIN dots
    /\ dots[d].lookup = "pending"
    /\ dots' = [dots EXCEPT ![d].country = getCountryFromIP(geo).country,
                            ![d].country_code = getCountryFromIP(geo).country_code,
                            ![d].lookup = IF geo.ok THEN "resolved" ELSE "failed"]
    /\ lateLookup' = (lateLookup \/ dots[d].timer = "fired")
    /\ tableFresh' = FALSE
    /\ UNCHANGED << serverPackets, nextIndex, calls, activeDots, countryTable >>
    /\ UNCHANGED flightVars
    /\ UNCHANGED pathVars
    /\ UNCHANGED chartVars

\* res.json() settles in the status-200 branch: plotDot(...); nextIndex++.
\* A rejection goes to the catch block.
PacketDecoded(c, rejected) ==
    /\ calls[c].stage = "packet"
    /\ calls' = [calls EXCEPT ![c] = NoCall]
    /\ IF rejected
       THEN UNCHANGED << nextIndex, dots, activeDots >>
       ELSE /\ plotDot(calls[c].index)
            /\ nextIndex' = nextIndex + 1
    /\ tableFresh' = (tableFresh /\ rejected)
    /\ UNCHANGED << serverPackets, lateLookup, countryTable >>
    /\ UNCHANGED flightVars
    /\ UNCHANGED pathVars
    /\ UNCHANGED chartVars

\* res.json() settles in the else branch: console.log only
ErrorDecoded(c) ==
    /\ calls[c].stage = "error"
    /\ calls' = [calls EXCEPT ![c] = NoCall]
    /\ UNCHANGED << serverPackets, nextIndex, dots, activeDots, lateLookup >>
    /\ UNCHANGED flightVars
    /\ UNCHANGED pathVars
    /\ UNCHANGED chartVars
    /\ UNCHANGED tableVars

\* the filter with its test inverted: activeDots.filter(d => d === dot)
KeepOnly(seq, dot) == SelectSeq(seq, LAMBDA d : d = dot)

RECURSIVE Without(_, _)
\* activeDots.filter(d => d !== dot)
Without(seq, dot) ==
    IF seq = << >> THEN << >>
    ELSE IF Head(seq) = dot THEN Without(Tail(seq), dot)
    ELSE << Head(seq) >> \o Without(Tail(seq), dot)

\* the 10 s timer of dot d fires; timers of equal delay fire in the order
\* they were set
RemoveDot(d) ==
    /\ d \in DOMAIN dots
    /\ dots[d].timer = "set"
    /\ \A e \in DOMAIN dots : e < d => dots[e].timer = "fired"
    /\ dots' = [dots EXCEPT ![d].timer = "fired"]
    /\ activeDots' = Without(activeDots, d)
    /\ tableFresh' = FALSE
    /\ UNCHANGED << serverPackets, nextIndex, calls, lateLookup, countryTable >>
    /\ UNCHANGED flightVars
    /\ UNCHANGED pathVars
    /\ UNCHANGED chartVars

VizNext ==
    \/ Receive
    \/ \E c \in CallIds : Poll(c)
    \/ \E c \in CallIds : \E rejected \in BOOLEAN : FetchSettles(c, rejected)
    \/ \E c \in CallIds : \E rejected \in BOOLEAN : PacketDecoded(c, rejected)
    \/ \E c \in CallIds : ErrorDecoded(c)
    \/ \E d \in DOMAIN dots : RemoveDot(d)

\* The visualizer with the country lookup (plotDot of the newer script calls
\* getCountryFromIP): polls that do not overlap, so one fetchAndPlot call is
\* suspended at a time, together with the timers and the lookups.
CountryNext ==
    \/ Receive
    \/ Poll(1)
    \/ \E rejected \in BOOLEAN : FetchSettles(1, rejected)
    \/ \E rejected \in BOOLEAN : PacketDecoded(1, rejected)
    \/ ErrorDecoded(1)
    \/ \E d \in DOMAIN dots : RemoveDot(d)
    \/ \E d \in DOMAIN dots :
          \E geo \in { NoAnswer, Answer("United States", "US") } : CountryResolves(d, geo)

\* the condition under which updateCountryTable counts a dot
CountedAnyCode(name, code) == name # "" /\ code # ""

\* name && code && code !== "XX"
Counted(name, code) == name # "" /\ code # "" /\ code # "XX"

\* counts[name] is created with the dot's code on first use, then incremented
AddCount(counts, name, code) ==
    IF \E k \in DOMAIN counts : counts[k].name = name
    THEN [k \in DOMAIN counts |->
            IF counts[k].name = name THEN [counts[k] EXCEPT !.count = @ + 1]
            ELSE counts[k]]
    ELSE Append(counts, [name |-> name, code |-> code, count |-> 1])

RECURSIVE CountDots(_, _, _)
\* activeDots.forEach over the userData of the dots; the entries of counts
\* keep their insertion order
CountDots(counts, active, userData) ==
    IF active = << >> THEN counts
    ELSE LET dot == userData[Head(active)]
         IN  CountDots(IF Counted(dot.country, dot.country_code)
                       THEN AddCount(counts, dot.country, dot.country_code)
                       ELSE counts,
                       Tail(active), userData)

\* one entry put into a sorted list behind every entry that is not smaller
InsertByCount(sorted, entry) ==
    LET ahead == Cardinality({ k \in DOMAIN sorted : sorted[k].count >= entry.count })
    IN  SubSeq(sorted, 1, ahead) \o << entry >> \o SubSeq(sorted, ahead + 1, Len(sorted))

RECURSIVE SortByCount(_, _)
\* Object.entries(counts).sort((a, b) => b[1].count - a[1].count), stable
SortByCount(sorted, entries) ==
    IF entries = << >> THEN sorted
    ELSE SortByCount(InsertByCount(sorted, Head(entries)), Tail(entries))

NoData == [name |-> "No data", code |-> "", count |-> 0]

\* the rows updateCountryTable writes
TableRows(active, userData) ==
    LET sorted == SortByCount(<< >>, CountDots(<< >>, active, userData))
    IN  IF Len(sorted) = 0 THEN << NoData >> ELSE sorted

\* setInterval(updateCountryTable, 100) fires
updateCountryTable ==
    /\ countryTable' = TableRows(activeDots, dots)
    /\ tableFresh' = TRUE
    /\ UNCHANGED vizVars
    /\ UNCHANGED flightVars
    /\ UNCHANGED pathVars
    /\ UNCHANGED chartVars

RECURSIVE CountCodes(_, _, _)
\* activeDots.forEach of updateCountryCharts: counts[code]++ for the codes
\* counts holds (a dot without country_code has none of them)
CountCodes(counts, active, userData) ==
    IF active = << >> THEN counts
    ELSE LET code == userData[Head(active)].country_code
         IN  CountCodes(IF code \in DOMAIN counts
                        THEN [counts EXCEPT ![code] = @ + 1]
                        ELSE counts,
                        Tail(active), userData)

\* push without the shift
PushSampleUnbounded(chart, label, value) ==
    [labels |-> Append(chart.labels, label), data |-> Append(chart.data, value)]

\* labels.push(label); data.push(value); if (labels.length > 60) both shift
PushSample(chart, label, value) ==
    LET labels == Append(chart.labels, label)
        data == Append(chart.data, value)
    IN  IF Len(labels) > ChartWindow
        THEN [labels |-> Tail(labels), data |-> Tail(data)]
        ELSE [labels |-> labels, data |-> data]

\* setInterval(updateCountryCharts, 1000) fires
updateCountryCharts ==
    /\ sampled < MaxSamples
    /\ sampled' = sampled + 1
    /\ LET counts == CountCodes([code \in DOMAIN charts |-> 0], activeDots, dots)
       IN  charts' = [code \in DOMAIN charts |->
                        PushSample(charts[code], sampled + 1, counts[code])]
    /\ UNCHANGED vizVars
    /\ UNCHANGED flightVars
    /\ UNCHANGED pathVars
    /\ UNCHANGED tableVars

\* The visualizer with its charts: the sender starts after QuietSamples runs
\* of updateCountryCharts; polls that do not overlap, the timers, the
\* lookups and the sampling.
ChartNext ==
    \/ sampled >= QuietSamples /\ Receive
    \/ Poll(1)
    \/ \E rejected \in BOOLEAN : FetchSettles(1, rejected)
    \/ \E rejected \in BOOLEAN : PacketDecoded(1, rejected)
    \/ ErrorDecoded(1)
    \/ \E d \in DOMAIN dots : RemoveDot(d)
    \/ \E d \in DOMAIN dots :
          \E geo \in { NoAnswer, Answer("United States", "US"), Answer("Russia", "RU") } :
              CountryResolves(d, geo)
    \/ updateCountryCharts

\* The visualizer with its country table: polls that do not overlap, the
\* timers, the lookups with every answer of the service, and the refresh.
TableNext ==
    \/ Receive
    \/ Poll(1)
    \/ \E rejected \in BOOLEAN : FetchSettles(1, rejected)
    \/ \E rejected \in BOOLEAN : PacketDecoded(1, rejected)
    \/ ErrorDecoded(1)
    \/ \E d \in DOMAIN dots : RemoveDot(d)
    \/ \E d \in DOMAIN dots : \E geo \in GeoAnswers : CountryResolves(d, geo)
    \/ updateCountryTable

vars == << flightVars, vizVars, pathVars, tableVars, chartVars >>
Init == FlightInit /\ VizInit /\ PathIdle /\ ChartInit
Next == FlightNext
Spec == Init /\ [][Next]_vars
VizSpec == Init /\ [][VizNext]_vars
LoadStart == LoadInit /\ VizInit /\ PathIdle /\ ChartInit
LoadSpec == LoadStart /\ [][LoadNext]_vars
UiSpec == Init /\ [][UiNext]_vars

\* requestAnimationFrame keeps calling animate, and a running tick runs to
\* its end
LiveSpec ==
    /\ Spec
    /\ WF_vars(AnimateClock)
    /\ WF_vars(UpdateInstancedPlanes)
    /\ WF_vars(UpdateFlights)

CountrySpec == Init /\ [][CountryNext]_vars

\* the constructor of one Flight over every input
TableSpec == Init /\ [][TableNext]_vars
ChartSpec == Init /\ [][ChartNext]_vars

PathStart == FlightInit /\ VizInit /\ PathInit /\ ChartInit
PathSpec == PathStart /\ [][PathNext]_vars

\* a timer that was set fires
CountryLiveSpec ==
    /\ CountrySpec
    /\ WF_vars(\E d \in DOMAIN dots : RemoveDot(d))

(***************************************************************************)
(* Vocabulary of the properties                                            *)
(***************************************************************************)
\* a tick has run to its end; currentTime is the simTime it saw
TickDone == pc = "idle" /\ clock.running

\* the simTime of the last tick is after the end of flight i
PastEnd(i) ==
    /\ TickDone
    /\ ~TimeGe(EndTime(flights[i]), currentTime)

PlanesAt(key) == airportStars[FindAirport(airportStars, key)].planes
InitialPlanes(key) == Cardinality({ j \in FlightIds : Dataset[j].origin = key })
DepartedFrom(key) ==
    Cardinality({ j \in FlightIds : flights[j].data.origin = key /\ flights[j].departed })
ArrivedAt(key) ==
    Cardinality({ j \in FlightIds : flights[j].data.destination = key /\ flights[j].arrived })

\* the occupancy of the node is its initial count, minus one per departed
\* trip from it, plus one per trip arrived at it
LedgerAt(key) == PlanesAt(key) = InitialPlanes(key) - DepartedFrom(key) + ArrivedAt(key)


(***************************************************************************)
(* Properties of the flight simulator                                      *)
(***************************************************************************)

\* C1: once a tick sequence with non-decreasing simTime that started before
\* startOffset has passed startOffset + duration, a Trip with duration > 0
\* has departed and its origin node has been decremented for it, whatever
\* the tick spacing.
C1_DepartureExactlyOnce ==
    \A i \in FlightIds :
        ( /\ PastEnd(i)
          /\ monotone
          /\ flights[i].duration > 0
          /\ flights[i].startTime.n > 0 )
        => (flights[i].departed /\ LedgerAt(flights[i].data.origin))

\* C2: once a tick sequence with non-decreasing simTime that started before
\* startOffset has passed startOffset + duration, a Trip with duration > 0
\* has arrived and its destination node has been incremented for it,
\* whatever the tick spacing.
C2_ArrivalExactlyOnce ==
    \A i \in FlightIds :
        ( /\ PastEnd(i)
          /\ monotone
          /\ flights[i].duration > 0
          /\ flights[i].startTime.n > 0 )
        => (flights[i].arrived /\ LedgerAt(flights[i].data.destination))

\* C3: in every step, departed and arrived never go back to false, and the
\* change of every node's occupancy is exactly minus one per Trip from it
\* whose departed flag turns true in that step plus one per Trip to it whose
\* arrived flag turns true in that step; so a Trip decrements its origin and
\* increments its destination at most once, also under repeated ticks at the
\* same simTime and simTime moving backward.
C3_StepOK ==
    /\ \A i \in FlightIds :
          /\ flights[i].departed => flights'[i].departed
          /\ flights[i].arrived => flights'[i].arrived
    /\ \A a \in DOMAIN airportStars :
          airportStars'[a].planes - airportStars[a].planes =
              Cardinality({ i \in FlightIds :
                              /\ flights[i].data.destination = airportStars[a].key
                              /\ ~flights[i].arrived /\ flights'[i].arrived })
            - Cardinality({ i \in FlightIds :
                              /\ flights[i].data.origin = airportStars[a].key
                              /\ ~flights[i].departed /\ flights'[i].departed })
C3_FlagsFlipAtMostOnce == [][C3_StepOK]_vars

\* C3 witness: a Trip has both departed and arrived in a run in which
\* simTime moved backward, and the tick is repeated at the same simTime.
C3_Witness ==
    /\ TickDone
    /\ ~monotone
    /\ flights[2].departed /\ flights[2].arrived
    /\ NumGt(Progress(flights[2], currentTime), 99, 100)
    /\ NumLe(Progress(flights[2], currentTime), 1, 1)

\* C4: in every step revealedSegments (dynamicSegmentIndex) does not
\* decrease and stays in 0..segmentCount, and a tick whose targetSegment is
\* not larger than revealedSegments changes neither revealedSegments nor the
\* materialized segments.
C4_StepOK ==
    \A i \in FlightIds :
        /\ flights'[i].dynamicSegmentIndex >= flights[i].dynamicSegmentIndex
        /\ flights'[i].dynamicSegmentIndex \in 0..SegmentCount
        /\ ( /\ pc = "flights"
             /\ ~NumGt(TargetSegmentIndex(flights[i], currentTime),
                       flights[i].dynamicSegmentIndex, 1) )
           => /\ flights'[i].dynamicSegmentIndex = flights[i].dynamicSegmentIndex
              /\ flights'[i].positions = flights[i].positions
C4_RevealMonotone == [][C4_StepOK]_vars

\* C4 witness: after simTime moved backward a tick has run whose
\* targetSegment is smaller than the Trip's revealedSegments.
C4_Witness ==
    \E i \in FlightIds :
        /\ TickDone
        /\ ~monotone
        /\ flights[i].dynamicSegmentIndex > 0
        /\ NumLt(TargetSegmentIndex(flights[i], currentTime),
                 flights[i].dynamicSegmentIndex, 1)

\* C5: for a Trip with duration 0, once a tick with simTime >= startOffset
\* has run, the Trip has both departed and arrived and its origin and
\* destination nodes have been adjusted.
C5_ZeroDurationTransitions ==
    \A i \in FlightIds :
        ( /\ TickDone
          /\ flights[i].duration = 0
          /\ TimeGe(currentTime, flights[i].startTime) )
        => /\ flights[i].departed
           /\ flights[i].arrived
           /\ LedgerAt(flights[i].data.origin)

\* C6: with no change of the acceleration factor the simTime of a tick at
\* real time r is a*r; after one change from a to b at real time r0 the
\* simTime of a tick at real time r > r0 is a*r0 + b*(r - r0).
C6_NoRetroactiveRescale ==
    LET r == clock.elapsedTime
        r0 == firstChange.at
        va == firstChange.from
        vb == TIME_ACCELERATION.d
    IN  /\ (TickDone /\ speedChanges = 0)
           => currentTime.n * InitialSlider = MinutesPerDay * r * currentTime.d
        /\ (TickDone /\ speedChanges = 1 /\ r > r0)
           => currentTime.n * va * vb
                = currentTime.d * MinutesPerDay * (r0 * vb + (r - r0) * va)

\* C7: a Trip with duration > 0 whose end simTime has been passed by a tick
\* eventually has revealedSegments = segmentCount and all segmentCount
\* segments materialized, ticks continuing to occur.
C7_EventuallyComplete ==
    \A i \in FlightIds :
        (PastEnd(i) /\ flights[i].duration > 0)
        ~> ( /\ flights[i].dynamicSegmentIndex = SegmentCount
             /\ flights[i].positions = 0..(SegmentCount - 1) )

\* C8: at every moment the materialized segments of a Trip are exactly its
\* first revealedSegments segments (segments 0 .. revealedSegments - 1),
\* none beyond.
C8_MaterializedAreTheRevealed ==
    \A i \in FlightIds :
        flights[i].positions = 0..(flights[i].dynamicSegmentIndex - 1)

RankClaimed(e) ==
    CASE e.step = "clock" -> 0
      [] e.step = "reveal" -> 1
      [] e.step = "occupancy" -> 2
      [] e.step = "transform" -> 3

RankInCode(e) ==
    CASE e.step = "clock" -> 0
      [] e.step = "transform" -> 1
      [] e.step = "occupancy" -> 1
      [] e.step = "reveal" -> 2

C9_LogOrdered ==
    /\ \A p, q \in DOMAIN tickLog :
          p < q =>
            /\ RankInCode(tickLog[p]) <= RankInCode(tickLog[q])
            /\ RankInCode(tickLog[p]) = RankInCode(tickLog[q])
               => tickLog[p].trip <= tickLog[q].trip
    /\ \A p \in DOMAIN tickLog :
          /\ tickLog[p].step = "transform"
             => (p < Len(tickLog)
                 /\ tickLog[p + 1] = Entry("occupancy", tickLog[p].trip))
          /\ tickLog[p].step = "occupancy"
             => tickLog[p - 1] = Entry("transform", tickLog[p].trip)
          /\ (tickLog[p].step = "clock") = (p = 1)
    /\ TickDone =>
          \A i \in FlightIds :
              Cardinality({ p \in DOMAIN tickLog : tickLog[p] = Entry("reveal", i) }) = 1
C12_SharedOriginTwice ==
    \A i, j \in FlightIds :
        ( /\ i # j
          /\ flights[i].data.origin = flights[j].data.origin
          /\ flights[i].departed /\ flights[j].departed )
        => LET o == flights[i].data.origin
           IN  PlanesAt(o) - ArrivedAt(o) + (DepartedFrom(o) - 2) = InitialPlanes(o) - 2

\* C12 witness: both Trips from the shared origin have departed, the one
\* with the later departure time first (the slider moved simTime backward
\* in between), and one of them has arrived elsewhere.
C12_Witness ==
    /\ TickDone
    /\ departures = << 1, 2 >>
    /\ flights[1].data.origin = flights[2].data.origin
    /\ flights[1].startTime.n > flights[2].startTime.n
    /\ flights[1].arrived

\* the same two departures in the other order, also reachable
C12_WitnessOtherOrder ==
    /\ TickDone
    /\ departures = << 2, 1 >>
    /\ flights[1].arrived

\* Trip i has progress in [0,1] at the simTime of the running/last tick
InFlight(i) ==
    /\ NumGe(Progress(flights[i], currentTime), 0, 1)
    /\ NumLe(Progress(flights[i], currentTime), 1, 1)

\* C19: the updateInstancedPlanes step of a tick writes slot i exactly when
\* Trip i has progress t in [0,1], and what it writes is the point at t of
\* Trip i's own route; every other slot keeps its value in that step, and
\* no other step changes any slot.
C19_StepOK ==
    \A i \in FlightIds :
        IF pc = "planes" /\ InFlight(i)
        THEN instanceMatrix'[i] = SlotAt(Dataset[i], Progress(flights[i], currentTime))
        ELSE instanceMatrix'[i] = instanceMatrix[i]
C19_SlotsOfActiveTrips == [][C19_StepOK]_vars

\* C19 witness: after a tick one Trip is in flight with its slot at its
\* progress, a finished Trip's slot holds the value of its last active
\* tick, and a Trip that was never in flight has the initial slot.
C19_Witness ==
    /\ TickDone
    /\ \E i \in FlightIds :
           InFlight(i) /\ instanceMatrix[i].t = Progress(flights[i], currentTime)
    /\ \E i \in FlightIds :
           PastEnd(i) /\ ~InFlight(i) /\ instanceMatrix[i] # InitialSlot
    /\ \E i \in FlightIds : instanceMatrix[i] = InitialSlot

\* C25: in every reachable state the occupancy of every AirportNode is the
\* number of Trips from it that have not departed plus the number of Trips
\* to it that have arrived; so it is never negative.
C25_OccupancyLedger ==
    \A k \in DOMAIN airportStars :
        /\ airportStars[k].planes =
              Cardinality({ i \in DOMAIN flights :
                              /\ flights[i].data.origin = airportStars[k].key
                              /\ ~flights[i].departed })
              + Cardinality({ i \in DOMAIN flights :
                                /\ flights[i].data.destination = airportStars[k].key
                                /\ flights[i].arrived })
        /\ airportStars[k].planes >= 0

\* a Trip between two different nodes has departed and arrived, its origin
\* is empty, and another Trip arrived without having departed
C25_Witness ==
    \E i, j \in FlightIds :
        /\ TickDone
        /\ flights[i].departed /\ flights[i].arrived
        /\ flights[i].data.origin # flights[i].data.destination
        /\ PlanesAt(flights[i].data.destination) > 0
        /\ flights[j].arrived /\ ~flights[j].departed

RECURSIVE TotalPlanes(_, _)
\* the sum of the occupancies of the first k nodes
TotalPlanes(stars, k) == IF k = 0 THEN 0 ELSE stars[k].planes + TotalPlanes(stars, k - 1)

\* C26: in no reachable state has a Trip arrived without having departed,
\* and the sum of all node occupancies never exceeds the number of Trips.
C26_ArrivalAfterDeparture ==
    /\ \A i \in FlightIds : flights[i].arrived => flights[i].departed
    /\ TotalPlanes(airportStars, Len(airportStars)) <= Len(flights)

\* C27: the simTime a tick computes is never smaller than the simTime of the
\* tick before it, also when the slider was moved between the two.
C27_StepOK ==
    (pc = "idle" /\ pc' = "planes")
        => currentTime'.n * currentTime.d >= currentTime.n * currentTime'.d
C27_SimTimeNonDecreasing == [][C27_StepOK]_vars

\* the factor is a positive finite number between 144 and 1440 and is
\* 1440 / v for a slider value v in 1..10
C32_InRange ==
    /\ TIME_ACCELERATION.kind = "fin"
    /\ TIME_ACCELERATION.d > 0
    /\ TIME_ACCELERATION.n > 0
    /\ 144 * TIME_ACCELERATION.d <= TIME_ACCELERATION.n
    /\ TIME_ACCELERATION.n <= 1440 * TIME_ACCELERATION.d
    /\ \E v \in 1..10 : TIME_ACCELERATION.n * v = 1440 * TIME_ACCELERATION.d

\* C32: the acceleration factor starts at 1440 / 5 and is, in every
\* reachable state, strictly positive and within a bounded range: the
\* speed control only ever sets it to 1440 / v for a slider value v in 1..10.
C32_FactorPositiveBounded ==
    /\ TIME_ACCELERATION.n * 5 = 1440 * TIME_ACCELERATION.d
    /\ []C32_InRange

\* the slider was moved twice and now stands at 1, the largest factor, and
\* a tick has run with it
C32_Witness ==
    /\ speedChanges = 2
    /\ TIME_ACCELERATION.n = 1440 * TIME_ACCELERATION.d
    /\ TickDone
    /\ currentTime.n = 1440 * clock.elapsedTime * currentTime.d
    /\ clock.elapsedTime > 0

\* C23: a Trip leaves Scheduled (dynamicPathAdded false) only in the reveal
\* phase of a tick whose simTime is at least its startOffset, it does so in
\* the first such tick, no segment is materialized while it is Scheduled,
\* and once added it stays added, also when simTime drops below startOffset.
C23_StepOK ==
    \A i \in FlightIds :
        LET due == /\ flights[i].startTime.kind = "fin"
                   /\ currentTime.n * flights[i].startTime.d
                        >= flights[i].startTime.n * currentTime.d
        IN  /\ flights[i].dynamicPathAdded => flights'[i].dynamicPathAdded
            /\ (~flights[i].dynamicPathAdded /\ flights'[i].dynamicPathAdded)
                  => (pc = "flights" /\ due)
            /\ (pc = "flights" /\ due) => flights'[i].dynamicPathAdded
            /\ ~flights'[i].dynamicPathAdded
                  => /\ flights'[i].dynamicSegmentIndex = 0
                     /\ flights'[i].positions = {}
C23_LeavesScheduledOnce == [][C23_StepOK]_vars

\* a tick has run with simTime below the startOffset of a Trip whose path
\* was added by an earlier tick
C23_Witness ==
    \E i \in FlightIds :
        /\ TickDone
        /\ flights[i].dynamicPathAdded
        /\ currentTime.n * flights[i].startTime.d
              < flights[i].startTime.n * currentTime.d

(***************************************************************************)
(* Properties of the buttons and the mouse                                 *)
(***************************************************************************)

\* the point is the position of an airport marker
IsStar(point) == point.t.kind = "ground"

\* C17: the tooltip shows the nearest object the mouse ray passes through,
\* airport markers and plane slots taken together: the airport when a
\* marker is nearest, the flight of the slot when a slot is nearest.
C17_NearestHitWins ==
    tooltip.ray # << >> =>
        LET nearest == tooltip.ray[1]
        IN  IF IsStar(nearest)
            THEN /\ tooltip.kind = "airport"
                 /\ airportStars[tooltip.id].key = nearest.origin
            ELSE /\ tooltip.kind = "flight"
                 /\ flights[tooltip.id].data.origin = nearest.origin
                 /\ flights[tooltip.id].data.destination = nearest.destination

\* C18: a mouse ray that passes through no airport marker and through no
\* slot of a Trip in flight hides the tooltip (so the slot of a finished
\* or not yet started Trip is never picked), and a ray through just the
\* slot of one Trip in flight shows the flight with that slot's index.
C18_StepOK ==
    tooltip' # tooltip =>
        LET ray == tooltip'.ray
            slotsInFlight == { i \in DOMAIN flights :
                                 /\ clock.running
                                 /\ InFlight(i)
                                 /\ \E k \in DOMAIN ray : ray[k] = instanceMatrix[i] }
        IN  /\ ( /\ \A k \in DOMAIN ray : ~IsStar(ray[k])
                 /\ slotsInFlight = {} )
               => tooltip'.kind = "none"
            /\ \A i \in DOMAIN flights :
                   (Len(ray) = 1 /\ slotsInFlight = {i})
                   => (tooltip'.kind = "flight" /\ tooltip'.id = i)
C18_OnlyActiveSlotsPicked == [][C18_StepOK]_vars

\* C20: a click on either button leaves, for every Trip, the revealed
\* segment index, the materialized segments, the path-added flag, departed
\* and arrived unchanged, and leaves every node's occupancy, every slot,
\* the clock, real and simulation time and the acceleration factor
\* unchanged.
C20_StepOK ==
    ( \/ areCompleteLinesVisible' # areCompleteLinesVisible
      \/ areDynamicLinesVisible' # areDynamicLinesVisible )
    => /\ DOMAIN flights' = DOMAIN flights
       /\ \A i \in DOMAIN flights :
              /\ flights'[i].dynamicSegmentIndex = flights[i].dynamicSegmentIndex
              /\ flights'[i].positions = flights[i].positions
              /\ flights'[i].dynamicPathAdded = flights[i].dynamicPathAdded
              /\ flights'[i].departed = flights[i].departed
              /\ flights'[i].arrived = flights[i].arrived
              /\ flights'[i].startTime = flights[i].startTime
              /\ flights'[i].duration = flights[i].duration
       /\ UNCHANGED << airportStars, instanceMatrix, clock, now, currentTime,
                       TIME_ACCELERATION, pc >>
C20_TogglesOnlyVisibility == [][C20_StepOK]_vars

\* C20 witness: both buttons have been clicked while a Trip had revealed
\* segments, had departed and had a written slot.
C20_Witness ==
    /\ areCompleteLinesVisible
    /\ ~areDynamicLinesVisible
    /\ \E i \in DOMAIN flights :
           /\ flights[i].pathVisible
           /\ ~flights[i].dynamicVisible
           /\ flights[i].dynamicSegmentIndex > 0
           /\ flights[i].departed
           /\ instanceMatrix[i] # InitialSlot

\* C28: while the dynamic-lines toggle is off no Trip's dynamic path is
\* shown (in the scene and visible), also for a Trip that leaves Scheduled
\* after the toggle was switched off; and every complete path's visibility
\* equals the complete-lines toggle.
C28_TogglesAuthoritative ==
    /\ ~areDynamicLinesVisible =>
          \A i \in DOMAIN flights :
              ~(flights[i].dynamicPathAdded /\ flights[i].dynamicVisible)
    /\ \A i \in DOMAIN flights : flights[i].pathVisible = areCompleteLinesVisible

(***************************************************************************)
(* Properties of the startup                                               *)
(***************************************************************************)

\* the startOffset the claim gives a row: (HH*60 + MM)*60 for "HH:MM", 0
\* for anything else
ClaimedStart(field) ==
    IF /\ field.type = "string"
       /\ Len(field.pieces) = 2
       /\ field.pieces[1].numeral /\ field.pieces[2].numeral
    THEN Fin((field.pieces[1].value * 60 + field.pieces[2].value) * 60, 1)
    ELSE Fin(0, 1)

\* C14: once the rows have been processed there is one Trip per dataset
\* row (no row is dropped because of its departure time), no Trip has a
\* NaN startOffset, and each startOffset is (HH*60 + MM)*60 for a
\* well-formed HH:MM and 0 for a missing or malformed departure time.
C14_StartOffsetDefaults ==
    startup \in {"constructed", "ready"} =>
        /\ Len(flights) = Len(response.rows)
        /\ \A i \in DOMAIN flights :
               /\ flights[i].startTime.kind # "NaN"
               /\ flights[i].startTime = ClaimedStart(flights[i].data.departure_time)

\* C15: no tick runs unless the load succeeded in full: the response had a
\* success status and every row of a non-empty file became a Trip.
C15_NoTickAfterFailedLoad ==
    clock.running =>
        /\ response.ok
        /\ Len(flights) > 0
        /\ Len(flights) = Len(response.rows)

\* C16: a tick has run only if init() is past the construction, in which
\* every kept row has its Trip and its slot and every endpoint its
\* AirportNode; and from the first tick on no step changes the size or the
\* order of the Trip and AirportNode collections.
C16_Constructed ==
    clock.running =>
        /\ startup = "ready"
        /\ [i \in DOMAIN flights |-> flights[i].data] = KeptRows(response.rows)
        /\ DOMAIN instanceMatrix = DOMAIN flights
        /\ \A i \in DOMAIN flights :
               /\ FindAirport(airportStars, flights[i].data.origin) # 0
               /\ FindAirport(airportStars, flights[i].data.destination) # 0
C16_StepOK ==
    clock.running =>
        /\ [i \in DOMAIN flights' |-> flights'[i].data]
             = [i \in DOMAIN flights |-> flights[i].data]
        /\ [a \in DOMAIN airportStars' |-> airportStars'[a].key]
             = [a \in DOMAIN airportStars |-> airportStars[a].key]
        /\ DOMAIN instanceMatrix' = DOMAIN instanceMatrix
C16_ConstructionBeforeTicks == []C16_Constructed /\ [][C16_StepOK]_vars

\* C16 witness: ticks have run on a collection of MaxRows Trips that was
\* built from a served file.
C16_Witness ==
    /\ TickDone
    /\ now > 0
    /\ Len(response.rows) > 0
    /\ Len(flights) = Len(response.rows)
    /\ \E i \in DOMAIN flights : instanceMatrix[i] # InitialSlot

(***************************************************************************)
(* Properties of the traffic visualizer                                    *)
(***************************************************************************)

\* C10: the dots are plotted in strictly increasing order of packet index,
\* so every packet index is plotted at most once, under every interleaving
\* of the polling timer with pending responses.
C10_PlottedOnceInOrder ==
    \A p, q \in DOMAIN dots : p < q => dots[p].packet < dots[q].packet

\* the dots whose removal timer has not fired, in creation order
ShownDots == SelectSeq([d \in DOMAIN dots |-> d], LAMBDA d : dots[d].timer = "set")

\* C11: activeDots holds exactly the plotted dots whose removal timer has
\* not fired; a timer that fired never becomes unfired, so a dot is removed
\* once and never comes back (a country lookup that settles changes no
\* membership); the step that removes one dot leaves every other dot's
\* membership alone; and every plotted dot is eventually removed.
C11_StepOK ==
    \A d \in DOMAIN dots :
        /\ dots[d].timer = "fired" => dots'[d].timer = "fired"
        /\ (dots[d].timer = "set" /\ dots'[d].timer = "fired") =>
               activeDots' = Without(activeDots, d)
C11_ActiveUntilTimer ==
    /\ [](activeDots = ShownDots)
    /\ [][C11_StepOK]_vars
    /\ \A d \in 1..(MaxPackets + MaxCalls) :
           (d \in DOMAIN dots) ~> (d \in DOMAIN dots /\ dots[d].timer = "fired")

\* C11 witness: a dot was removed by its timer while a later dot stayed
\* shown, and the removed dot's country lookup settled after the removal.
C11_Witness ==
    \E d, e \in DOMAIN dots :
        /\ dots[d].timer = "fired"
        /\ dots[d].lookup = "resolved"
        /\ lateLookup
        /\ dots[e].timer = "set"
        /\ activeDots = << e >>

\* C29: nextIndex is the number of distinct packet indices plotted so far,
\* and every index below nextIndex has been plotted, under every
\* interleaving of overlapping fetchAndPlot calls.
C29_NextIndexCountsPlotted ==
    /\ nextIndex = Cardinality({ dots[d].packet : d \in DOMAIN dots })
    /\ \A k \in 0..(nextIndex - 1) : \E d \in DOMAIN dots : dots[d].packet = k

\* call c fails in this step: its fetch rejects, its response has a status
\* other than 200, or the decoding of its body throws
FailsNow(c) ==
    \/ calls[c].stage = "fetch" /\ calls'[c] = NoCall
    \/ calls[c].stage = "fetch" /\ calls'[c].stage = "error"
    \/ calls[c].stage = "packet" /\ calls'[c] = NoCall /\ dots' = dots

\* C30: a fetchAndPlot call that fails leaves nextIndex and activeDots
\* unchanged, and the index it requested is still nextIndex, the index the
\* next poll requests (nextIndex never decreases, so otherwise no later
\* poll requests it).
C30_StepOK ==
    \A c \in CallIds :
        FailsNow(c) =>
            /\ nextIndex' = nextIndex
            /\ activeDots' = activeDots
            /\ nextIndex' = calls[c].index
C30_FailedCallRetried == [][C30_StepOK]_vars

\* the active dots whose lookup gave a code other than XX
Located ==
    { d \in DOMAIN dots :
        /\ \E k \in DOMAIN activeDots : activeDots[k] = d
        /\ dots[d].lookup # "pending"
        /\ dots[d].country_code # "XX" }

\* C24: right after a refresh the country table lists exactly the countries
\* of the active dots whose lookup gave a code other than XX, each once and
\* with the number of those dots, in non-increasing order of count, and the
\* single row 'No data' when there is none; a lookup that failed left
\* Unknown / XX in its dot.
C24_Leaderboard ==
    /\ tableFresh =>
          IF Located = {}
          THEN countryTable = << NoData >>
          ELSE /\ { countryTable[k].name : k \in DOMAIN countryTable }
                    = { dots[d].country : d \in Located }
               /\ \A k, l \in DOMAIN countryTable :
                      /\ countryTable[k].name = countryTable[l].name => k = l
                      /\ k < l => countryTable[k].count >= countryTable[l].count
               /\ \A k \in DOMAIN countryTable :
                      countryTable[k].count =
                        Cardinality({ d \in Located : dots[d].country = countryTable[k].name })
    /\ \A d \in DOMAIN dots :
          dots[d].lookup = "failed" =>
              dots[d].country = "Unknown" /\ dots[d].country_code = "XX"

\* a fresh table of two countries in which the country that was counted
\* second leads
C24_Witness ==
    /\ tableFresh
    /\ Len(countryTable) = 2
    /\ countryTable[1].count = 2
    /\ dots[activeDots[1]].country = countryTable[2].name

\* a fresh table that shows 'No data' while two dots are active, one whose
\* lookup failed and one whose answer had no code
C24_WitnessNoData ==
    /\ tableFresh
    /\ countryTable = << NoData >>
    /\ \E d, e \in DOMAIN dots :
          /\ dots[d].timer = "set" /\ dots[d].lookup = "failed"
          /\ dots[e].timer = "set" /\ dots[e].lookup = "resolved"

\* the last n elements of a sequence
LastOf(seq, n) == IF Len(seq) <= n THEN seq ELSE SubSeq(seq, Len(seq) - n + 1, Len(seq))

\* the active dots with a country code
ActiveWith(code) ==
    { k \in DOMAIN activeDots : dots[activeDots[k]].country_code = code }

\* in every state the labels and the data of each chart have one length, at
\* most 60, and the labels are the numbers of the most recent runs in order
C31_Window ==
    \A code \in {"US", "RU", "CN"} :
        /\ Len(charts[code].labels) = Len(charts[code].data)
        /\ Len(charts[code].labels) <= 60
        /\ Len(charts[code].labels) = IF sampled <= 60 THEN sampled ELSE 60
        /\ \A k \in DOMAIN charts[code].labels :
               charts[code].labels[k] = sampled - Len(charts[code].labels) + k

\* a run of updateCountryCharts appends, for each chart, the number of
\* active dots with the chart's code, and keeps the 60 most recent samples
C31_StepOK ==
    sampled' # sampled =>
        \A code \in {"US", "RU", "CN"} :
            charts'[code].data
              = LastOf(Append(charts[code].data, Cardinality(ActiveWith(code))), 60)

\* C31: after any number of updateCountryCharts runs each of the three
\* charts has labels and data of equal length, at most 60, holding the most
\* recent samples in arrival order, each sample being the number of active
\* dots with the chart's country code when it was taken.
C31_ChartsHoldRecentCounts == []C31_Window /\ [][C31_StepOK]_vars

\* more than 60 runs have happened, the oldest samples were dropped, and
\* the US chart ends with the samples 1, 2 while the RU chart ends with 0, 1
C31_Witness ==
    /\ sampled > 60
    /\ charts["US"].labels[1] > 1
    /\ charts["US"].data[59] = 1 /\ charts["US"].data[60] = 2
    /\ charts["RU"].data[59] = 0 /\ charts["RU"].data[60] = 1
    /\ charts["CN"].data[60] = 0

(***************************************************************************)
(* Properties of the path generation                                       *)
(***************************************************************************)
\* C21: a path generated with S segments has exactly S + 1 points, the
\* first the origin's projection and the last the destination's projection
\* at the path altitude, and the buffer of the dynamic path holds exactly S
\* segments of six numbers.
C21_PathShape ==
    /\ curvePoints # << >> =>
          /\ Len(curvePoints) = pathInput.segments + 1
          /\ curvePoints[1] =
                latLongToVector3(pathInput.origin[1], pathInput.origin[2], PathAltitude)
          /\ curvePoints[Len(curvePoints)] =
                latLongToVector3(pathInput.destination[1], pathInput.destination[2],
                                 PathAltitude)
    /\ positionsLength # -1 => positionsLength = 6 * pathInput.segments

\* a path of three segments between two different airports, buffer allocated;
\* its middle points are off the chord's ends
C21_Witness ==
    /\ positionsLength # -1
    /\ pathInput.segments = 3
    /\ curvePoints[1] # curvePoints[4]
    /\ curvePoints[2] \notin { curvePoints[1], curvePoints[4] }

====
